---- MODULE Spec2Model ----
(***************************************************************************)
(* Model of cut_tree.py: the identifier extractor (get_article_id), the    *)
(* metadata and content fetchers (get_pdf_name, get_pdf_file), the article *)
(* pipeline (process_one_article) and the batch coordinator (main).        *)
(*                                                                         *)
(* Text is a sequence of one-character strings.  The literals "<title>"    *)
(* and "</title>" of the title pattern are single tokens of a body.  Byte  *)
(* content is a sequence of opaque tokens.                                 *)
(***************************************************************************)
EXTENDS Integers, Sequences, FiniteSets, TLC

VARIABLES article_list, postproc_fn, mainpc, session, sessions_opened,
          tasks, done, consumed, log, calls, error

(* The script under __main__: its position, the command line, the          *)
(* environment, the two collaborators it sets up, the file system and the  *)
(* print queue.                                                            *)
VARIABLES scriptpc, args, env, print_fn, save_dir, temp_dir, dirs, files,
          jobs, script_error

script_vars == <<scriptpc, args, env, print_fn, save_dir, temp_dir, dirs,
                 files, jobs, script_error>>

vars == <<article_list, postproc_fn, mainpc, session, sessions_opened,
          tasks, done, consumed, log, calls, error, script_vars>>

(***************************************************************************)
(* Bounds                                                                  *)
(***************************************************************************)
MaxLines == 2
MaxPad == 2

(***************************************************************************)
(* Character classes                                                       *)
(***************************************************************************)
Digit == {"0", "1", "2", "3", "4", "5", "6", "7", "8", "9"}

Whitespace == {" ", "\t", "\n"}

Min(S) == CHOOSE x \in S : \A y \in S : x <= y

Max(S) == CHOOSE x \in S : \A y \in S : x >= y

(***************************************************************************)
(* FIND_ID_REGEX = \d{4}\.\d{5,6}, matched at position i of line: the      *)
(* length of the match (the quantifier {5,6} is greedy), or 0.             *)
(***************************************************************************)
MatchIdAtLazy(line, i) ==
    IF /\ i + 9 <= Len(line)
       /\ \A k \in 0..3 : line[i + k] \in Digit
       /\ line[i + 4] = "."
       /\ \A k \in 5..9 : line[i + k] \in Digit
    THEN 10
    ELSE 0

MatchIdAt(line, i) ==
    IF /\ i + 9 <= Len(line)
       /\ \A k \in 0..3 : line[i + k] \in Digit
       /\ line[i + 4] = "."
       /\ \A k \in 5..9 : line[i + k] \in Digit
    THEN IF i + 10 <= Len(line) /\ line[i + 10] \in Digit THEN 11 ELSE 10
    ELSE 0

(* re.search: the leftmost position at which the pattern matches. *)
RECURSIVE SearchId(_, _)
SearchId(line, i) ==
    IF i > Len(line) THEN [found |-> FALSE, text |-> <<>>]
    ELSE IF MatchIdAt(line, i) # 0
         THEN [found |-> TRUE,
               text |-> SubSeq(line, i, i + MatchIdAt(line, i) - 1)]
         ELSE SearchId(line, i + 1)

(* An exception: its type and the texts its message carries. *)
Exception(kind, info) == [kind |-> kind, info |-> info]

NoError == Exception("None", {})

(* get_article_id: the match, or ValueError("invalid input <line>"). *)
get_article_id_unraised(line) ==
    [ok |-> TRUE, value |-> SearchId(line, 1).text, error |-> NoError]

get_article_id(line) ==
    LET match == SearchId(line, 1)
    IN IF match.found
       THEN [ok |-> TRUE, value |-> match.text, error |-> NoError]
       ELSE [ok |-> FALSE, value |-> <<>>,
             error |-> Exception("ValueError", {line})]

(***************************************************************************)
(* FIND_TITLE_REGEX: <title>, "[", group 1 = digits "." digits, "]",       *)
(* group 2 = any characters but newline, </title>.                         *)
(***************************************************************************)
(* End of the maximal run of digits of xml that starts at j (j-1 if none). *)
RECURSIVE DigitRunEnd(_, _)
DigitRunEnd(xml, j) ==
    IF j <= Len(xml) /\ xml[j] \in Digit THEN DigitRunEnd(xml, j + 1) ELSE j - 1

(* End of the maximal run of non-newline characters that starts at j. *)
RECURSIVE LineRunEnd(_, _)
LineRunEnd(xml, j) ==
    IF j <= Len(xml) /\ xml[j] # "\n" THEN LineRunEnd(xml, j + 1) ELSE j - 1

(* The pattern matched at position i: the two groups, or no match.  The    *)
(* classes of digit, dot and bracket are disjoint, so the greedy digit     *)
(* runs never backtrack; the greedy group 2 backtracks to the last         *)
(* </title> of the line.                                                   *)
MatchTitleAt(xml, i) ==
    LET NoMatch == [found |-> FALSE, id |-> <<>>, title |-> <<>>]
    IN IF ~(i + 1 <= Len(xml) /\ xml[i] = "<title>" /\ xml[i + 1] = "[")
       THEN NoMatch
       ELSE LET d1 == DigitRunEnd(xml, i + 2)
            IN IF ~(d1 + 1 <= Len(xml) /\ xml[d1 + 1] = ".")
               THEN NoMatch
               ELSE LET d2 == DigitRunEnd(xml, d1 + 2)
                    IN IF ~(d2 + 1 <= Len(xml) /\ xml[d2 + 1] = "]")
                       THEN NoMatch
                       ELSE LET g == d2 + 2
                                e == LineRunEnd(xml, g)
                                closers == {k \in g..e : xml[k] = "</title>"}
                            IN IF closers = {}
                               THEN NoMatch
                               ELSE [found |-> TRUE,
                                     id |-> SubSeq(xml, i + 2, d2),
                                     title |-> SubSeq(xml, g, Max(closers) - 1)]

RECURSIVE SearchTitle(_, _)
SearchTitle(xml, i) ==
    IF i > Len(xml) THEN [found |-> FALSE, id |-> <<>>, title |-> <<>>]
    ELSE IF MatchTitleAt(xml, i).found
         THEN MatchTitleAt(xml, i)
         ELSE SearchTitle(xml, i + 1)

(* str.strip(): drop leading and trailing whitespace. *)
RECURSIVE lstrip(_)
lstrip(s) ==
    IF s # <<>> /\ Head(s) \in Whitespace THEN lstrip(Tail(s)) ELSE s

RECURSIVE rstrip(_)
rstrip(s) ==
    IF s # <<>> /\ s[Len(s)] \in Whitespace
    THEN rstrip(SubSeq(s, 1, Len(s) - 1))
    ELSE s

nostrip(s) == s

strip(s) == rstrip(lstrip(s))

(***************************************************************************)
(* The remote endpoints                                                    *)
(***************************************************************************)
ARXIV_ABS_URL_BASE == <<"https://arxiv.org/abs/">>

ARXIV_PDF_URL_BASE == <<"https://arxiv.org/pdf/">>

(* resp.raise_for_status(): raises for a status of 400 and above; the      *)
(* error carries the URL of the request.                                   *)
raise_for_status(status, url) ==
    IF status >= 400
    THEN Exception("ClientResponseError", {url})
    ELSE NoError

(* get_pdf_file: the response body, or the error of the status. *)
get_pdf_file(aid, status, body) ==
    LET url == ARXIV_PDF_URL_BASE \o aid
        err == raise_for_status(status, url)
    IN IF err # NoError
       THEN [ok |-> FALSE, value |-> <<>>, error |-> err]
       ELSE [ok |-> TRUE, value |-> body, error |-> NoError]

(* get_pdf_name: group 1 and the stripped group 2 of the first title       *)
(* match; match.group on no match is an AttributeError on None.            *)
get_pdf_name(aid, status, xml) ==
    LET url == ARXIV_ABS_URL_BASE \o aid
        err == raise_for_status(status, url)
        match == SearchTitle(xml, 1)
        Fail(e, read) == [ok |-> FALSE, xml |-> read, id |-> <<>>,
                          title |-> <<>>, error |-> e]
    IN IF err # NoError THEN Fail(err, <<>>)
       ELSE IF ~match.found THEN Fail(Exception("AttributeError", {}), xml)
       ELSE [ok |-> TRUE, xml |-> xml, id |-> match.id,
             title |-> strip(match.title), error |-> NoError]

(***************************************************************************)
(* process_one_article, one operator per stretch between suspensions       *)
(***************************************************************************)
NoTask ==
    [pc |-> "none", session |-> 0, aid |-> <<>>, xml |-> <<>>,
     parsed_aid |-> <<>>,
     text_title |-> <<>>, pdf_file |-> <<>>, result |-> <<>>,
     error |-> NoError, abs_requests |-> 0, pdf_requests |-> 0]

Failed(task, err) == [task EXCEPT !.pc = "failed", !.error = err]

(* The value returned at line 52. *)
ReturnValueSwapped(pdf_file, text_title) == <<text_title, pdf_file>>

ReturnValue(pdf_file, text_title) == <<pdf_file, text_title>>

(* Lines 47-49: extract the identifier, then request the abstract. *)
process_one_article_begin(task, article_uri) ==
    LET r == get_article_id(article_uri)
    IN IF ~r.ok THEN Failed(task, r.error)
       ELSE [task EXCEPT !.pc = "get_pdf_name", !.aid = r.value,
                         !.abs_requests = @ + 1]

(* Lines 49-51: the abstract arrives; cross-check, then request the PDF. *)
process_one_article_name_unchecked(task, status, xml) ==
    LET r == get_pdf_name(task.aid, status, xml)
    IN IF ~r.ok THEN Failed([task EXCEPT !.xml = r.xml], r.error)
       ELSE [task EXCEPT !.pc = "get_pdf_file", !.xml = xml,
                         !.parsed_aid = r.id, !.text_title = r.title,
                         !.pdf_requests = @ + 1]

process_one_article_name(task, status, xml) ==
    LET r == get_pdf_name(task.aid, status, xml)
    IN IF ~r.ok THEN Failed([task EXCEPT !.xml = r.xml], r.error)
       ELSE IF task.aid # r.id
            THEN Failed([task EXCEPT !.xml = xml, !.parsed_aid = r.id,
                                     !.text_title = r.title],
                        Exception("AssertionError", {task.aid, r.id}))
            ELSE [task EXCEPT !.pc = "get_pdf_file", !.xml = xml,
                              !.parsed_aid = r.id, !.text_title = r.title,
                              !.pdf_requests = @ + 1]

(* Lines 51-52: the PDF arrives; return. *)
process_one_article_file(task, status, body) ==
    LET r == get_pdf_file(task.aid, status, body)
    IN IF ~r.ok THEN Failed(task, r.error)
       ELSE [task EXCEPT !.pc = "done", !.pdf_file = r.value,
                         !.result = ReturnValue(r.value, task.text_title)]

(***************************************************************************)
(* Inputs: the lines of a batch and what the server may answer             *)
(***************************************************************************)
IdA == <<"1", "7", "0", "6", ".", "0", "3", "7", "6", "2">>

IdB == <<"1", "7", "0", "6", ".", "9", "9", "9", "9", "9">>

LineA == IdA

LineB == <<"a", "b", "s", "/">> \o IdB \o <<"v", "1">>

LineBad == <<"a", "r", "x", "i", "v">>

Lines == {LineA, LineB, LineBad}

TitleBody(id, text) ==
    <<"<html>", "<title>", "[">> \o id \o <<"]">> \o text
        \o <<"</title>", "\n">>

BodyA == TitleBody(IdA, <<" ", "A", "t", "t", " ">>)

BodyB == TitleBody(IdB, <<" ", "B">>)

BodyNoTitle == <<"<html>", "</html>">>

Bodies == {BodyA, BodyB, BodyNoTitle}

Contents == {<<"%PDF-1">>, <<"%PDF-2">>}

Statuses == {200, 404}

(***************************************************************************)
(* main                                                                    *)
(***************************************************************************)
N == Len(article_list)

(* main called on its own: no script around it. *)
NoScript ==
    /\ scriptpc = "off"
    /\ args = [save |-> "None", print |-> FALSE, input |-> <<>>]
    /\ env = [cups |-> "ok"]
    /\ print_fn = "None"
    /\ save_dir = "None"
    /\ temp_dir = "None"
    /\ dirs = {}
    /\ files = <<>>
    /\ jobs = <<>>
    /\ script_error = NoError

Init ==
    /\ NoScript
    /\ article_list \in UNION {[1..n -> Lines] : n \in 0..MaxLines}
    /\ postproc_fn \in BOOLEAN
    /\ mainpc = "start"
    /\ session = "none"
    /\ sessions_opened = 0
    /\ tasks = [i \in 1..Len(article_list) |-> NoTask]
    /\ done = <<>>
    /\ consumed = 0
    /\ log = <<>>
    /\ calls = <<>>
    /\ error = NoError

(* Line 56, async with: the session is closed on every way out. *)
SessionAtExitNoRelease(raised) == IF raised THEN "open" ELSE "closed"

SessionAtExit(raised) == "closed"

(* Line 58: the awaited result unpacked as pdf_file, title. *)
UnpackSwapped(result) == [pdf_file |-> result[2], title |-> result[1]]

Unpack(result) == [pdf_file |-> result[1], title |-> result[2]]

(* Line 59: the line logged with a result, by the index of enumerate. *)
LoggedLine(aidx, t) == article_list[aidx + 1]

(* The for loop after n results: the next await, or the end of main. *)
Continue(n) ==
    IF n = N
    THEN mainpc' = "returned" /\ session' = SessionAtExit(FALSE)
    ELSE mainpc' = "waiting" /\ session' = session

(* A failure leaves main through the async with. *)
RaiseSwallowed(e) ==
    /\ error' = error
    /\ mainpc' = "waiting"
    /\ session' = session

Raise(e) ==
    /\ error' = e
    /\ mainpc' = "aborted"
    /\ session' = SessionAtExit(TRUE)

(* Line 61: main awaits the callback it has just called. *)
CallbackNotAwaited(n) == Continue(n)

AwaitCallback(n) == mainpc' = "callback" /\ session' = session

(* Lines 56-57: open the session, create every pipeline run, enter the     *)
(* loop.                                                                   *)
main_begin ==
    /\ mainpc = "start"
    /\ sessions_opened' = sessions_opened + 1
    /\ tasks' = [i \in 1..N |->
                    [NoTask EXCEPT !.pc = "start",
                                   !.session = sessions_opened + 1]]
    /\ IF N = 0
       THEN mainpc' = "returned" /\ session' = SessionAtExit(FALSE)
       ELSE mainpc' = "waiting" /\ session' = "open"
    /\ UNCHANGED <<script_vars, article_list, postproc_fn, done, consumed,
                   log, calls, error>>

(* A pipeline run ends: as_completed queues it in completion order. *)
Complete(i, task) ==
    /\ tasks' = [tasks EXCEPT ![i] = task]
    /\ done' = IF task.pc \in {"done", "failed"} THEN Append(done, i) ELSE done

(* The runs are tasks of the event loop: they step while main awaits a    *)
(* result or the callback.                                                 *)
RunningOnlyBetweenCallbacks == mainpc = "waiting"

Running == mainpc \in {"waiting", "callback"}

run_begin(i) ==
    /\ Running
    /\ tasks[i].pc = "start"
    /\ Complete(i, process_one_article_begin(tasks[i], article_list[i]))
    /\ UNCHANGED <<script_vars, article_list, postproc_fn, mainpc, session,
                   sessions_opened, consumed, log, calls, error>>

run_name(i) ==
    /\ Running
    /\ tasks[i].pc = "get_pdf_name"
    /\ \E status \in Statuses, xml \in Bodies :
          Complete(i, process_one_article_name(tasks[i], status, xml))
    /\ UNCHANGED <<script_vars, article_list, postproc_fn, mainpc, session,
                   sessions_opened, consumed, log, calls, error>>

run_file(i) ==
    /\ Running
    /\ tasks[i].pc = "get_pdf_file"
    /\ \E status \in Statuses, body \in Contents :
          Complete(i, process_one_article_file(tasks[i], status, body))
    /\ UNCHANGED <<script_vars, article_list, postproc_fn, mainpc, session,
                   sessions_opened, consumed, log, calls, error>>

(* Lines 57-61: the next completed run is awaited; its failure is raised,  *)
(* its result is logged and handed to the callback.                        *)
main_next ==
    /\ mainpc = "waiting"
    /\ consumed < Len(done)
    /\ LET aidx == consumed
           t == done[consumed + 1]
       IN /\ consumed' = consumed + 1
          /\ IF tasks[t].pc = "failed"
             THEN /\ Raise(tasks[t].error)
                  /\ UNCHANGED <<log, calls>>
             ELSE LET r == Unpack(tasks[t].result)
                  IN /\ log' = Append(log, [line |-> LoggedLine(aidx, t),
                                            title |-> r.title, task |-> t])
                     /\ error' = error
                     /\ IF postproc_fn
                        THEN /\ calls' = Append(calls,
                                           [title |-> r.title,
                                            content |-> r.pdf_file,
                                            task |-> t, state |-> "running"])
                             /\ AwaitCallback(consumed + 1)
                        ELSE /\ calls' = calls
                             /\ Continue(consumed + 1)
    /\ UNCHANGED <<script_vars, article_list, postproc_fn, sessions_opened,
                   tasks, done>>

(* Line 61: the awaited callback returns. *)
postproc_return ==
    /\ mainpc = "callback"
    /\ calls' = [calls EXCEPT ![Len(calls)].state = "returned"]
    /\ Continue(consumed)
    /\ UNCHANGED <<script_vars, article_list, postproc_fn, sessions_opened,
                   tasks, done, consumed, log, error>>

(* Line 61: the awaited callback raises. *)
postproc_raise ==
    /\ mainpc = "callback"
    /\ calls' = [calls EXCEPT ![Len(calls)].state = "raised"]
    /\ Raise(Exception("CallbackError", {}))
    /\ UNCHANGED <<script_vars, article_list, postproc_fn, sessions_opened,
                   tasks, done, consumed, log>>

Next ==
    \/ main_begin
    \/ \E i \in 1..N : run_begin(i)
    \/ \E i \in 1..N : run_name(i)
    \/ \E i \in 1..N : run_file(i)
    \/ main_next
    \/ postproc_return
    \/ postproc_raise

Spec == Init /\ [][Next]_vars

(***************************************************************************)
(* A batch of one line, the line drawn from texts around an identifier     *)
(***************************************************************************)
PadChars == {"1", ".", "x"}

Pads == UNION {[1..n -> PadChars] : n \in 0..MaxPad}

Cores ==
    {IdA,
     IdA \o <<"5">>,
     SubSeq(IdA, 1, 9),
     SubSeq(IdA, 2, 10),
     SubSeq(IdA, 1, 4) \o SubSeq(IdA, 6, 10),
     IdA \o <<" ">> \o IdB}

ExtractLines == {pre \o core \o post : pre \in Pads, core \in Cores, post \in Pads}

InitExtract ==
    /\ NoScript
    /\ article_list \in {<<line>> : line \in ExtractLines}
    /\ postproc_fn \in BOOLEAN
    /\ mainpc = "start"
    /\ session = "none"
    /\ sessions_opened = 0
    /\ tasks = [i \in 1..Len(article_list) |-> NoTask]
    /\ done = <<>>
    /\ consumed = 0
    /\ log = <<>>
    /\ calls = <<>>
    /\ error = NoError

SpecExtract == InitExtract /\ [][Next]_vars

(***************************************************************************)
(* The script under __main__ (lines 64-165)                                *)
(***************************************************************************)
(* str.split(','): the pieces of s between the commas. *)
RECURSIVE split(_)
split(s) ==
    LET commas == {k \in 1..Len(s) : s[k] = ","}
    IN IF commas = {}
       THEN <<s>>
       ELSE <<SubSeq(s, 1, Min(commas) - 1)>>
               \o split(SubSeq(s, Min(commas) + 1, Len(s)))

(* The file of identifiers that exists, and its physical lines. *)
InputFile == <<"i", "d", "s", ".", "t", "x", "t">>

isfile(path) == path = InputFile

FileLines == <<IdA, LineB>>

(* generate_article_list, lines 81-90: open is handed the list ret, not    *)
(* the path ret[0], and raises TypeError.                                  *)
generate_article_list(input_str) ==
    LET pieces == split(input_str)
        ret == [k \in 1..Len(pieces) |-> strip(pieces[k])]
    IN IF input_str = <<>>
       THEN [ok |-> FALSE, value |-> <<>>,
             error |-> Exception("ValueError", {})]
       ELSE IF Len(ret) = 0
       THEN [ok |-> FALSE, value |-> <<>>,
             error |-> Exception("ValueError", {})]
       ELSE IF Len(ret) = 1 /\ isfile(ret[1])
       THEN [ok |-> FALSE, value |-> <<>>,
             error |-> Exception("TypeError", {})]
       ELSE [ok |-> TRUE, value |-> ret, error |-> NoError]

(* setup_printing, lines 93-117: whatever goes wrong inside the try, the   *)
(* return of the finally clause discards it and None is returned.          *)
setup_printing_raising(should_print, cups) ==
    IF ~should_print THEN [raised |-> NoError, ret |-> "None"]
    ELSE CASE cups = "no_pycups" -> [raised |-> NoError, ret |-> "None"]
           [] cups = "no_server" ->
                 [raised |-> Exception("RuntimeError", {}), ret |-> "None"]
           [] cups = "no_printers" ->
                 [raised |-> Exception("RuntimeError", {}), ret |-> "None"]
           [] cups = "no_default" ->
                 [raised |-> Exception("KeyError", {}), ret |-> "None"]
           [] OTHER -> [raised |-> NoError, ret |-> "print_one_file"]

setup_printing(should_print, cups) ==
    IF ~should_print THEN [raised |-> NoError, ret |-> "None"]
    ELSE CASE cups = "no_pycups" -> [raised |-> NoError, ret |-> "None"]
           [] cups = "no_server" -> [raised |-> NoError, ret |-> "None"]
           [] cups = "no_printers" -> [raised |-> NoError, ret |-> "None"]
           [] cups = "no_default" -> [raised |-> NoError, ret |-> "None"]
           [] OTHER -> [raised |-> NoError, ret |-> "print_one_file"]

(* tempfile.mkdtemp() *)
TempDir == "tmp"

(* setup_saving, lines 120-146: the directory files go to (created when    *)
(* missing), or a fresh temporary one when only printing.                  *)
setup_saving(save, print, ds) ==
    IF save = "None" /\ print = "None"
    THEN [save_fn |-> "None", save_dir |-> "None", temp_dir |-> "None",
          dirs |-> ds]
    ELSE IF save # "None"
    THEN [save_fn |-> "save_file_fn", save_dir |-> save,
          temp_dir |-> "None", dirs |-> ds \cup {save}]
    ELSE [save_fn |-> "save_file_fn", save_dir |-> TempDir,
          temp_dir |-> TempDir, dirs |-> ds \cup {TempDir}]

(* The finally clause, lines 161-165: shutil.rmtree(temp_dir). *)
finally_on_success_only(ds, fs, td, failed) ==
    IF td # "None" /\ ~failed
    THEN [dirs |-> ds \ {td},
          files |-> [q \in {r \in DOMAIN fs : r[1] # td} |-> fs[q]]]
    ELSE [dirs |-> ds, files |-> fs]

finally(ds, fs, td, failed) ==
    IF td # "None"
    THEN [dirs |-> ds \ {td},
          files |-> [q \in {r \in DOMAIN fs : r[1] # td} |-> fs[q]]]
    ELSE [dirs |-> ds, files |-> fs]

Inputs ==
    {<<>>,
     IdA,
     LineB \o <<",", " ">> \o IdA \o <<" ">>,
     IdA \o <<",">> \o IdA,
     IdA \o <<",">> \o LineBad,
     InputFile}

CupsStates == {"no_pycups", "no_server", "no_printers", "no_default", "ok"}

InitScript ==
    /\ scriptpc = "start"
    /\ args \in [save : {"None", "out", "new"}, print : BOOLEAN,
                 input : Inputs]
    /\ env \in [cups : CupsStates]
    /\ print_fn = "None"
    /\ save_dir = "None"
    /\ temp_dir = "None"
    /\ dirs = {"out"}
    /\ files = <<>>
    /\ jobs = <<>>
    /\ script_error = NoError
    /\ article_list = <<>>
    /\ postproc_fn = TRUE
    /\ mainpc = "unstarted"
    /\ session = "none"
    /\ sessions_opened = 0
    /\ tasks = <<>>
    /\ done = <<>>
    /\ consumed = 0
    /\ log = <<>>
    /\ calls = <<>>
    /\ error = NoError

(* Lines 149-160, up to the call of main: set up printing and saving,      *)
(* parse the input; a failure goes straight to the finally clause.         *)
script_begin ==
    /\ scriptpc = "start"
    /\ LET p == setup_printing(args.print, env.cups)
           sv == IF p.raised = NoError
                 THEN setup_saving(args.save, p.ret, dirs)
                 ELSE setup_saving("None", "None", dirs)
           g == generate_article_list(args.input)
           err == IF p.raised # NoError THEN p.raised ELSE g.error
           fin == finally(sv.dirs, files, sv.temp_dir, TRUE)
       IN /\ print_fn' = p.ret
          /\ save_dir' = sv.save_dir
          /\ temp_dir' = sv.temp_dir
          /\ IF err # NoError
             THEN /\ scriptpc' = "exited"
                  /\ script_error' = err
                  /\ dirs' = fin.dirs
                  /\ files' = fin.files
                  /\ UNCHANGED <<article_list, tasks, mainpc>>
             ELSE /\ scriptpc' = "running"
                  /\ script_error' = script_error
                  /\ dirs' = sv.dirs
                  /\ files' = files
                  /\ article_list' = g.value
                  /\ tasks' = [i \in 1..Len(g.value) |-> NoTask]
                  /\ mainpc' = "start"
    /\ UNCHANGED <<args, env, jobs, postproc_fn, session, sessions_opened,
                   done, consumed, log, calls, error>>

(* os.path.join(save_dir, title + ".pdf"), lines 139 and 154. *)
final_path(dir, title) == <<dir, title \o <<".pdf">>>>

(* The callback in progress. *)
Call == calls[Len(calls)]

(* postprocess_fn, lines 152-154 and 139-141: nothing to do without a      *)
(* save_fn; otherwise the file is opened for writing (and truncated).      *)
postprocess_open ==
    /\ scriptpc = "running"
    /\ mainpc = "callback"
    /\ Call.state = "running"
    /\ IF save_dir = "None"
       THEN /\ calls' = [calls EXCEPT ![Len(calls)].state = "returned"]
            /\ Continue(consumed)
            /\ UNCHANGED <<files, error>>
       ELSE LET path == final_path(save_dir, Call.title)
            IN \E ok \in BOOLEAN :
                  IF ok
                  THEN /\ files' = (path :> [open |-> TRUE, data |-> <<>>])
                                      @@ files
                       /\ calls' = [calls EXCEPT
                                       ![Len(calls)].state = "writing"]
                       /\ UNCHANGED <<mainpc, session, error>>
                  ELSE /\ calls' = [calls EXCEPT
                                       ![Len(calls)].state = "raised"]
                       /\ Raise(Exception("OSError", {path}))
                       /\ UNCHANGED files
    /\ UNCHANGED <<scriptpc, args, env, print_fn, save_dir, temp_dir, dirs,
                   jobs, script_error, article_list, postproc_fn,
                   sessions_opened, tasks, done, consumed, log>>

(* save_file_fn, lines 141-143: the write ends, well or not, and the file  *)
(* is closed on the way out of the async with; a failed write raises.      *)
save_file_fn_write_swallowed(ok, bin_content) ==
    [raised |-> FALSE,
     file |-> [open |-> FALSE, data |-> IF ok THEN bin_content ELSE <<>>]]

save_file_fn_write(ok, bin_content) ==
    [raised |-> ~ok,
     file |-> [open |-> FALSE, data |-> IF ok THEN bin_content ELSE <<>>]]

(* Lines 142-143 and 154-156: the write ends; after a good write the path  *)
(* is returned and, with a printer, the file is submitted as a job.        *)
postprocess_write ==
    /\ scriptpc = "running"
    /\ mainpc = "callback"
    /\ Call.state = "writing"
    /\ LET path == final_path(save_dir, Call.title)
       IN \E ok \in BOOLEAN, printed \in BOOLEAN :
             LET w == save_file_fn_write(ok, Call.content)
             IN /\ files' = [files EXCEPT ![path] = w.file]
                /\ IF w.raised
                   THEN /\ calls' = [calls EXCEPT
                                        ![Len(calls)].state = "raised"]
                        /\ Raise(Exception("OSError", {path}))
                        /\ jobs' = jobs
                   ELSE IF print_fn = "None"
                   THEN /\ calls' = [calls EXCEPT
                                        ![Len(calls)].state = "returned"]
                        /\ Continue(consumed)
                        /\ UNCHANGED <<jobs, error>>
                   ELSE IF printed
                   THEN /\ jobs' = Append(jobs,
                                     [filepath |-> path,
                                      job_title |-> Call.title,
                                      call |-> Len(calls),
                                      seen |-> w.file])
                        /\ calls' = [calls EXCEPT
                                        ![Len(calls)].state = "returned"]
                        /\ Continue(consumed)
                        /\ error' = error
                   ELSE /\ calls' = [calls EXCEPT
                                        ![Len(calls)].state = "raised"]
                        /\ Raise(Exception("IPPError", {path}))
                        /\ jobs' = jobs
    /\ UNCHANGED <<scriptpc, args, env, print_fn, save_dir, temp_dir, dirs,
                   script_error, article_list, postproc_fn,
                   sessions_opened, tasks, done, consumed, log>>

(* Lines 160-165: asyncio.run returns or raises, then the finally clause.  *)
script_end ==
    /\ scriptpc = "running"
    /\ mainpc \in {"returned", "aborted"}
    /\ LET fin == finally(dirs, files, temp_dir, mainpc = "aborted")
       IN /\ dirs' = fin.dirs
          /\ files' = fin.files
    /\ scriptpc' = "exited"
    /\ script_error' = error
    /\ UNCHANGED <<args, env, print_fn, save_dir, temp_dir, jobs,
                   article_list, postproc_fn, mainpc, session,
                   sessions_opened, tasks, done, consumed, log, calls,
                   error>>

NextScript ==
    \/ script_begin
    \/ main_begin
    \/ \E i \in 1..N : run_begin(i)
    \/ \E i \in 1..N : run_name(i)
    \/ \E i \in 1..N : run_file(i)
    \/ main_next
    \/ postprocess_open
    \/ postprocess_write
    \/ script_end

SpecScript == InitScript /\ [][NextScript]_vars

(***************************************************************************)
(* Properties                                                              *)
(***************************************************************************)
Terminal == mainpc \in {"returned", "aborted"}

(* The runs main has taken from as_completed, in order. *)
Consumed == [k \in 1..consumed |-> done[k]]

(* C1: every logged association names the line whose pipeline run produced *)
(* the logged result, whatever the completion order.                       *)
C1_LogNamesOriginatingLine ==
    \A k \in DOMAIN log : log[k].line = article_list[log[k].task]

(* C2: when main returns with a callback, the callback was invoked exactly *)
(* once per input line, and every invocation carries the title and the     *)
(* content that the pipeline run of one and the same line received.        *)
C2_CallbackOncePerLine ==
    /\ \A k \in DOMAIN calls :
          /\ calls[k].title = tasks[calls[k].task].text_title
          /\ calls[k].content = tasks[calls[k].task].pdf_file
    /\ (mainpc = "returned" /\ postproc_fn) =>
          /\ Len(calls) = N
          /\ \A i \in 1..N :
                Cardinality({k \in DOMAIN calls : calls[k].task = i}) = 1

C2_Witness ==
    /\ mainpc = "returned"
    /\ article_list = <<LineA, LineB>>
    /\ done = <<2, 1>>
    /\ Len(calls) = 2
    /\ calls[1].title = <<"B">>
    /\ calls[2].content # calls[1].content

(* C3: the PDF is requested only after the abstract has returned with the  *)
(* identifier of the line; a different identifier fails the run with the   *)
(* AssertionError and no PDF request is ever issued for the line.          *)
C3_ContentFetchAfterIdentityCheck ==
    \A i \in 1..N :
       /\ tasks[i].pdf_requests > 0 =>
             /\ tasks[i].abs_requests = 1
             /\ tasks[i].xml # <<>>
             /\ tasks[i].parsed_aid = tasks[i].aid
       /\ (tasks[i].parsed_aid # <<>> /\ tasks[i].parsed_aid # tasks[i].aid) =>
             /\ tasks[i].pc = "failed"
             /\ tasks[i].error.kind = "AssertionError"
             /\ tasks[i].pdf_requests = 0

C3_Witness ==
    \E i, j \in 1..N :
       /\ tasks[i].aid = IdA
       /\ tasks[i].parsed_aid = IdB
       /\ tasks[i].pc = "failed"
       /\ tasks[j].pdf_requests = 1
       /\ mainpc = "aborted"

(* The title a summary body carries, trimmed by hand. *)
ExpectedTitle(xml) ==
    CASE xml = BodyA -> <<"A", "t", "t">>
      [] xml = BodyB -> <<"B">>
      [] OTHER -> <<>>

(* C4, as claimed: a successful run returns (title, content), the trimmed  *)
(* title of the summary first and the body of the PDF response second.     *)
C4_ReturnsTitleThenContent ==
    \A i \in 1..N :
       tasks[i].pc = "done" =>
          /\ tasks[i].result[1] = ExpectedTitle(tasks[i].xml)
          /\ tasks[i].result[2] = tasks[i].pdf_file

(* C4, amended: a successful run returns (content, title), the body of the *)
(* PDF response first and the trimmed title of the summary second.         *)
C4_ReturnsContentThenTitle ==
    \A i \in 1..N :
       tasks[i].pc = "done" =>
          /\ Len(tasks[i].result) = 2
          /\ tasks[i].result[1] = tasks[i].pdf_file
          /\ tasks[i].pdf_file \in Contents
          /\ tasks[i].result[2] = ExpectedTitle(tasks[i].xml)

C4_Witness ==
    \E i \in 1..N :
       /\ tasks[i].pc = "done"
       /\ article_list[i] = LineA
       /\ tasks[i].result = <<(<<"%PDF-1">>), (<<"A", "t", "t">>)>>

(* C5: the first failed run that main takes from as_completed aborts main  *)
(* with that run's error; the callback has been invoked for exactly the    *)
(* runs taken before it, and main takes nothing after it.                  *)
C5_FirstFailureAborts ==
    \A k \in 1..consumed :
       tasks[done[k]].pc = "failed" =>
          /\ mainpc = "aborted"
          /\ k = consumed
          /\ error = tasks[done[k]].error
          /\ \A j \in 1..(k - 1) : tasks[done[j]].pc = "done"
          /\ Len(calls) = (IF postproc_fn THEN k - 1 ELSE 0)
          /\ \A j \in DOMAIN calls : calls[j].task = done[j]

C5_Witness ==
    /\ mainpc = "aborted"
    /\ N = 2
    /\ consumed = 2
    /\ Len(done) = 2
    /\ tasks[done[2]].pc = "failed"
    /\ error.kind = "ClientResponseError"
    /\ Len(calls) = 1

(* text occurs in whole. *)
Mentions(whole, text) ==
    /\ text # <<>>
    /\ \E i \in 1..Len(whole) :
          /\ i + Len(text) - 1 <= Len(whole)
          /\ SubSeq(whole, i, i + Len(text) - 1) = text

PipelineErrors ==
    {"ValueError", "ClientResponseError", "AttributeError", "AssertionError"}

(* C6: the error of a failed pipeline run that main raises names the input *)
(* line of the run or the identifier extracted from it.                    *)
C6_ErrorIdentifiesLine ==
    (mainpc = "aborted" /\ error.kind \in PipelineErrors) =>
       LET t == done[consumed]
       IN \E whole \in error.info :
             \/ Mentions(whole, article_list[t])
             \/ Mentions(whole, tasks[t].aid)

(* C7: main opens one session, every pipeline run uses it, and it is       *)
(* closed in every state in which main has returned or aborted.            *)
C7_OneSessionAlwaysReleased ==
    /\ sessions_opened <= 1
    /\ (mainpc # "start") => sessions_opened = 1
    /\ \A i \in 1..N : tasks[i].pc # "none" => tasks[i].session = 1
    /\ Terminal => session = "closed"
    /\ mainpc \in {"waiting", "callback"} => session = "open"

C7_Witness ==
    /\ mainpc = "aborted"
    /\ error.kind = "CallbackError"
    /\ session = "closed"
    /\ N = 2
    /\ \E i \in 1..N : tasks[i].pc = "get_pdf_file"

(***************************************************************************)
(* The identifier pattern, stated on substrings                            *)
(***************************************************************************)
IsIdentifier(s) ==
    /\ Len(s) \in {10, 11}
    /\ \A k \in 1..4 : s[k] \in Digit
    /\ s[5] = "."
    /\ \A k \in 6..Len(s) : s[k] \in Digit

Occurrences(line) ==
    {o \in (1..Len(line)) \X {10, 11} :
        /\ o[1] + o[2] - 1 <= Len(line)
        /\ IsIdentifier(SubSeq(line, o[1], o[1] + o[2] - 1))}

(* The leftmost occurrence, and the longer one where two start there. *)
FirstOccurrence(line) ==
    LET i == Min({o[1] : o \in Occurrences(line)})
        n == Max({o[2] : o \in {q \in Occurrences(line) : q[1] = i}})
    IN SubSeq(line, i, i + n - 1)

Begun(i) == tasks[i].pc \notin {"none", "start"}

(* C8: for a line that contains an identifier-shaped substring, the run    *)
(* extracts exactly the first such substring, whatever surrounds it.       *)
C8_ExtractsFirstIdentifier ==
    \A i \in 1..N :
       (Begun(i) /\ Occurrences(article_list[i]) # {}) =>
          /\ tasks[i].error.kind # "ValueError"
          /\ tasks[i].aid = FirstOccurrence(article_list[i])

C8_Witness ==
    \E i \in 1..N :
       /\ Begun(i)
       /\ article_list[i] = <<"x", ".">> \o IdA \o <<"5", "1", "x">>
       /\ tasks[i].aid = IdA \o <<"5">>

(* C9: for a line with no identifier-shaped substring the run fails with   *)
(* the ValueError of get_article_id that names the line, and no abstract   *)
(* or PDF request is issued for the line.                                  *)
C9_MalformedLineFailsBeforeAnyRequest ==
    \A i \in 1..N :
       (Begun(i) /\ Occurrences(article_list[i]) = {}) =>
          /\ tasks[i].pc = "failed"
          /\ tasks[i].error = Exception("ValueError", {article_list[i]})
          /\ tasks[i].abs_requests = 0
          /\ tasks[i].pdf_requests = 0
          /\ tasks[i].aid = <<>>

C9_Witness ==
    \E i \in 1..N :
       /\ article_list[i] = <<"1">> \o SubSeq(IdA, 1, 9) \o <<".", "x">>
       /\ tasks[i].pc = "failed"
       /\ tasks[i].error.kind = "ValueError"
       /\ mainpc = "aborted"

(* The lines of the batch from which an identifier is extracted. *)
WellFormed == {i \in 1..N : get_article_id(article_list[i]).ok}

(* C10, as claimed: when main ends on a malformed line, the runs of the    *)
(* other lines have been processed and delivered to the callback.          *)
C10_MalformedLineIsLocal ==
    (Terminal /\ postproc_fn /\ error.kind = "ValueError") =>
       \A i \in WellFormed :
          /\ tasks[i].pc \in {"done", "failed"}
          /\ tasks[i].pc = "done" => \E k \in DOMAIN calls : calls[k].task = i

(* C10, amended: the failed run of a malformed line aborts main with its   *)
(* ValueError like any other failure; only the runs main took before it    *)
(* have been delivered, and no other line is delivered.                    *)
C10_MalformedLineAbortsBatch ==
    \A k \in 1..consumed :
       (tasks[done[k]].pc = "failed" /\ tasks[done[k]].error.kind = "ValueError") =>
          /\ mainpc = "aborted"
          /\ error = Exception("ValueError", {article_list[done[k]]})
          /\ \A c \in DOMAIN calls : \E j \in 1..(k - 1) : calls[c].task = done[j]
          /\ \A i \in 1..N :
                (\A j \in 1..(k - 1) : done[j] # i) =>
                   ~(\E c \in DOMAIN calls : calls[c].task = i)

C10_Witness ==
    /\ mainpc = "aborted"
    /\ error.kind = "ValueError"
    /\ postproc_fn
    /\ article_list = <<LineA, LineBad>>
    /\ done = <<2, 1>>
    /\ tasks[1].pc = "done"
    /\ calls = <<>>

(* C11: a summary that was received but holds no title element fails the  *)
(* run with an error of the dedicated kind UnparsableResponse, and no PDF  *)
(* request is issued for the line.                                         *)
C11_UnparsableResponseIsDedicatedError ==
    \A i \in 1..N :
       (tasks[i].xml # <<>> /\ ~SearchTitle(tasks[i].xml, 1).found) =>
          /\ tasks[i].pc = "failed"
          /\ tasks[i].error.kind = "UnparsableResponse"
          /\ tasks[i].pdf_requests = 0

(* C17: at most one callback invocation is in progress, it is the last one *)
(* made, and while it is in progress main has taken no further run.        *)
C17_CallbacksSerialized ==
    LET running == {k \in DOMAIN calls : calls[k].state = "running"}
    IN /\ Cardinality(running) <= 1
       /\ \A k \in running :
             /\ k = Len(calls)
             /\ mainpc = "callback"
             /\ done[consumed] = calls[k].task
       /\ mainpc = "callback" => running # {}

C17_Witness ==
    /\ mainpc = "callback"
    /\ Len(calls) = 2
    /\ calls[1].state = "returned"
    /\ calls[2].state = "running"
    /\ consumed = 2

(* The step of run i that is due in its position. *)
StepEnabled(i) ==
    CASE tasks[i].pc = "start" -> ENABLED run_begin(i)
      [] tasks[i].pc = "get_pdf_name" -> ENABLED run_name(i)
      [] tasks[i].pc = "get_pdf_file" -> ENABLED run_file(i)
      [] OTHER -> TRUE

(* C18: while main is in its loop every line has a run, and every run that *)
(* has not ended can take its next step, whatever the other runs and the   *)
(* callback are doing.                                                     *)
C18_RunsAreConcurrent ==
    (mainpc \in {"waiting", "callback"}) =>
       \A i \in 1..N : tasks[i].pc # "none" /\ StepEnabled(i)

C18_Witness ==
    /\ mainpc = "callback"
    /\ N = 2
    /\ done = <<2>>
    /\ tasks[2].pc = "done"
    /\ tasks[1].pc = "get_pdf_file"
    /\ tasks[1].pdf_requests = 1

(* C19: every line has at most one callback invocation, and an invocation  *)
(* is made only for a run that extracted an identifier, received a summary *)
(* with that identifier and received the PDF.                              *)
C19_AtMostOnceAndOnlyOnSuccess ==
    /\ \A i \in 1..N :
          Cardinality({k \in DOMAIN calls : calls[k].task = i}) <= 1
    /\ \A k \in DOMAIN calls :
          LET task == tasks[calls[k].task]
          IN /\ task.pc = "done"
             /\ task.aid = get_article_id(article_list[calls[k].task]).value
             /\ IsIdentifier(task.aid)
             /\ task.abs_requests = 1
             /\ task.parsed_aid = task.aid
             /\ task.pdf_requests = 1
             /\ task.pdf_file \in Contents

C19_Witness ==
    /\ mainpc = "aborted"
    /\ N = 2
    /\ Len(calls) = 1
    /\ calls[1].state = "returned"
    /\ tasks[done[2]].pc = "failed"

(* C12: once the script has exited, normally or on a failure at any step, *)
(* the temporary directory made for printing without a save directory and  *)
(* everything in it are gone; while the batch runs in that mode it exists. *)
C12_TempDirRemovedAtExit ==
    /\ (scriptpc = "running" /\ print_fn # "None" /\ args.save = "None") =>
          /\ temp_dir = TempDir
          /\ save_dir = TempDir
          /\ TempDir \in dirs
    /\ scriptpc = "exited" =>
          /\ TempDir \notin dirs
          /\ \A q \in DOMAIN files : q[1] # TempDir

C12_Witness ==
    /\ scriptpc = "exited"
    /\ temp_dir = TempDir
    /\ script_error.kind = "IPPError"
    /\ Len(jobs) = 1
    /\ Len(calls) = 2

(* C13: every print job was submitted for a file that was closed and held  *)
(* the whole content of its article; a callback whose write failed, or     *)
(* whose file is still open, has no print job.                             *)
C13_PrintOnlyAfterCompleteWrite ==
    /\ \A j \in DOMAIN jobs :
          LET c == calls[jobs[j].call]
          IN /\ jobs[j].filepath = final_path(save_dir, c.title)
             /\ jobs[j].seen = [open |-> FALSE, data |-> c.content]
             /\ c.content \in Contents
             /\ c.state = "returned"
    /\ \A k \in DOMAIN calls :
          calls[k].state \in {"running", "writing", "raised"} =>
             ~(\E j \in DOMAIN jobs : jobs[j].call = k)

C13_Witness ==
    /\ Len(calls) = 2
    /\ Len(jobs) = 1
    /\ calls[2].state = "raised"
    /\ error.kind = "OSError"
    /\ calls[1].title = calls[2].title
    /\ files[jobs[1].filepath] = [open |-> FALSE, data |-> <<>>]

(* C14: when printing is asked for and the print service cannot be set up, *)
(* setup_printing returns None without raising: the script ends on no      *)
(* error of the setup, main is started on any valid input, no job is ever  *)
(* submitted and no temporary directory is made.                           *)
C14_PrintSetupFailureDisablesPrinting ==
    (args.print /\ env.cups # "ok" /\ scriptpc \in {"running", "exited"}) =>
       /\ print_fn = "None"
       /\ script_error.kind \notin {"ImportError", "RuntimeError", "KeyError"}
       /\ generate_article_list(args.input).ok => mainpc # "unstarted"
       /\ jobs = <<>>
       /\ temp_dir = "None"
       /\ TempDir \notin dirs

C14_Witness ==
    /\ args.print
    /\ env.cups = "no_printers"
    /\ args.save = "new"
    /\ scriptpc = "exited"
    /\ mainpc = "returned"
    /\ Len(calls) = 2
    /\ DOMAIN files # {}

(* C15: for the path of an existing file generate_article_list returns the *)
(* physical lines of the file without failing; for any other value it      *)
(* returns the comma-separated tokens.                                     *)
C15_FileLinesOrTokens ==
    (scriptpc \in {"running", "exited"} /\ args.input # <<>>) =>
       IF isfile(args.input)
       THEN /\ script_error.kind # "TypeError"
            /\ article_list = FileLines
       ELSE /\ script_error.kind # "TypeError"
            /\ Len(article_list) = Cardinality({k \in 1..Len(args.input) :
                                                  args.input[k] = ","}) + 1
            /\ args.input = LineB \o <<",", " ">> \o IdA \o <<" ">> =>
                  article_list = <<LineB, IdA>>

====
